---- MODULE Spec2Model ----
(***************************************************************************)
(* Model of scr/generate_dataset.py: class GenerateDataset.                *)
(*                                                                         *)
(* One run is one execution of the script's entry point: the constructor  *)
(* (which loads the configuration) followed by generate_elevator_states.   *)
(* Runs execute one after another against the same store.                  *)
(*                                                                         *)
(* Numbers.  Python ints are modelled as integers.  A Python float is      *)
(* modelled exactly as a multiple of 1/Quarter (its "v" field counts       *)
(* quarters).  Times are counted in ticks of 1/TicksPerSecond second, so   *)
(* that the sub-second part of a datetime, which strftime("%S") drops, is  *)
(* part of the model.                                                      *)
(***************************************************************************)
EXTENDS Integers, Sequences, FiniteSets, TLC

VARIABLES
    store,        \* rows persisted by ElevatorStateManager, oldest first
    file,         \* ./scr/elevator_variables.json as read by this run
    pc,           \* position of the running process
    outcome,      \* how the run ended: "none", "returned" or an exception name
    self,         \* attributes assigned by load_elevator_variables
    weight_list,  \* self.weight_list
    cursor,       \* self.current_floor, self.demand_floor, self.start_time
    next_floor,   \* self.next_floor
    drawn,        \* pick_next_door's local next_floor
    lags,         \* calculate_interval_minutes' two lag locals and its result
    call_datetime,\* generate_elevator_states' local call_datetime (ticks)
    i,            \* the loop variable of generate_elevator_states
    runs,         \* number of runs started so far
    runStart,     \* Len(store) when the current run started
    drew,         \* a weighted floor draw (random.choices) happened in this run
    getCalls,     \* calls of get_last_elevator_state in this run
    createCalls,  \* calls of create_elevator_state in this run
    storeFailed   \* a store call raised in this run

vars == <<store, file, pc, outcome, self, weight_list, cursor, next_floor, drawn,
          lags, call_datetime, i, runs, runStart, drew, getCalls, createCalls,
          storeFailed>>

(***************************************************************************)
(* Bounds of the model.                                                    *)
(***************************************************************************)
MaxRuns == 2

(***************************************************************************)
(* Units.                                                                  *)
(***************************************************************************)
TicksPerSecond == 4
SecondsPerMinute == 60
Quarter == TicksPerSecond
TicksPerMinute == SecondsPerMinute * TicksPerSecond
TicksPerHour == 60 * TicksPerMinute
At(h, m, s, q) == ((h * 60 + m) * 60 + s) * TicksPerSecond + q

(***************************************************************************)
(* JSON values: a record with the Python type "t" json.load gives the      *)
(* value and its payload "v".                                              *)
(***************************************************************************)
JInt(n) == [t |-> "int", v |-> n]
JFloat(q) == [t |-> "float", v |-> q]
JStr(s) == [t |-> "str", v |-> s]
JDict(f) == [t |-> "dict", v |-> f]
JList(q) == [t |-> "list", v |-> q]

\* isinstance(x, int): bool is a subclass of int.
IsInt(x) == x.t \in {"int", "bool"}
\* isinstance(x, (int, float))
IsNumber(x) == x.t \in {"int", "bool", "float"}
\* isinstance(x, str), isinstance(x, dict), isinstance(x, list)
IsStr(x) == x.t = "str"
IsDict(x) == x.t = "dict"
IsList(x) == x.t = "list"
\* The value of a number, in quarters.
Quarters(x) == IF x.t = "float" THEN x.v ELSE Quarter * x.v

RequiredKeys ==
    {"floor_capacities", "floor_types", "rows_generated", "floor_number",
     "min_time_interval_seconds", "max_time_interval_seconds", "peak_hours",
     "peak_multiplier", "random_minutes_range"}

\* One entry of peak_hours fails the check of lines 115-119.
BadPeakInterval(p) ==
    \/ ~({"start", "end"} \subseteq DOMAIN p.v)
    \/ ~IsInt(p.v["start"])
    \/ ~IsInt(p.v["end"])

(***************************************************************************)
(* load_elevator_variables: the exception it ends in, or "ok".  The checks *)
(* are made in the order of the code; data["negative_floor_number"] and    *)
(* data["interval_per_floor_seconds"] are subscripted without a membership *)
(* test, and KeyError is not among the exceptions the method catches.      *)
(***************************************************************************)
LoadOutcome(f) ==
    LET data == f.v IN
    IF f.t \in {"nofile", "badjson"} THEN "ValueError"
    ELSE IF ~(RequiredKeys \subseteq DOMAIN data) THEN "ValueError"
    ELSE IF ~IsDict(data["floor_capacities"]) THEN "ValueError"
    ELSE IF \E k \in DOMAIN data["floor_capacities"].v :
                LET capacity == data["floor_capacities"].v[k]
                IN  ~IsInt(capacity) \/ capacity.v <= 0
         THEN "ValueError"
    ELSE IF ~IsDict(data["floor_types"]) THEN "ValueError"
    ELSE IF \E k \in DOMAIN data["floor_types"].v :
                ~IsStr(data["floor_types"].v[k])
         THEN "ValueError"
    ELSE IF ~IsInt(data["rows_generated"]) \/ data["rows_generated"].v <= 0
         THEN "ValueError"
    ELSE IF ~IsInt(data["floor_number"]) \/ data["floor_number"].v <= 0
         THEN "ValueError"
    ELSE IF "negative_floor_number" \notin DOMAIN data THEN "KeyError"
    ELSE IF ~IsInt(data["negative_floor_number"])
            \/ data["negative_floor_number"].v > 0
         THEN "ValueError"
    ELSE IF \E k \in {"min_time_interval_seconds", "max_time_interval_seconds"} :
                ~IsInt(data[k]) \/ data[k].v <= 0
         THEN "ValueError"
    ELSE IF "interval_per_floor_seconds" \notin DOMAIN data THEN "KeyError"
    ELSE IF ~IsNumber(data["interval_per_floor_seconds"])
            \/ ~(0 <= Quarters(data["interval_per_floor_seconds"]))
         THEN "ValueError"
    ELSE IF ~IsList(data["peak_hours"])
            \/ \E k \in DOMAIN data["peak_hours"].v : ~IsDict(data["peak_hours"].v[k])
         THEN "ValueError"
    ELSE IF \E k \in DOMAIN data["peak_hours"].v :
                BadPeakInterval(data["peak_hours"].v[k])
         THEN "ValueError"
    ELSE IF ~IsNumber(data["peak_multiplier"])
            \/ ~(0 <= Quarters(data["peak_multiplier"])
                 /\ Quarters(data["peak_multiplier"]) <= Quarter)
         THEN "ValueError"
    ELSE IF ~IsDict(data["random_minutes_range"])
            \/ ~({"min", "max"} \subseteq DOMAIN data["random_minutes_range"].v)
            \/ ~IsInt(data["random_minutes_range"].v["min"])
            \/ ~IsInt(data["random_minutes_range"].v["max"])
         THEN "ValueError"
    ELSE "ok"

\* Lines 141-151: the attributes a successful load assigns.
LoadedAttributes(f) ==
    LET data == f.v IN
    [loaded |-> TRUE,
     floor_capacities |-> [k \in DOMAIN data["floor_capacities"].v |->
                              data["floor_capacities"].v[k].v],
     floor_types |-> [k \in DOMAIN data["floor_types"].v |->
                         data["floor_types"].v[k].v],
     rows_generated |-> data["rows_generated"].v,
     floor_number |-> data["floor_number"].v,
     negative_floor_number |-> data["negative_floor_number"].v,
     min_time_interval_seconds |-> data["min_time_interval_seconds"].v,
     max_time_interval_seconds |-> data["max_time_interval_seconds"].v,
     interval_per_floor_quarters |-> Quarters(data["interval_per_floor_seconds"]),
     peak_hours |-> [k \in DOMAIN data["peak_hours"].v |->
                        [start |-> data["peak_hours"].v[k].v["start"].v,
                         end |-> data["peak_hours"].v[k].v["end"].v]],
     peak_multiplier_quarters |-> Quarters(data["peak_multiplier"]),
     random_minutes_range |-> [min |-> data["random_minutes_range"].v["min"].v,
                               max |-> data["random_minutes_range"].v["max"].v]]

(***************************************************************************)
(* The configuration documents a run may find.  ValidFile is the shape of  *)
(* the repository's elevator_variables.json; the others change it in one   *)
(* place.                                                                  *)
(***************************************************************************)
Config(fc, ft, rows, fn, neg, mn, mx, ipf, ph, pm, rmin, rmax) ==
    JDict([floor_capacities |-> JDict(fc),
           floor_types |-> JDict(ft),
           rows_generated |-> rows,
           floor_number |-> fn,
           negative_floor_number |-> neg,
           min_time_interval_seconds |-> mn,
           max_time_interval_seconds |-> mx,
           interval_per_floor_seconds |-> ipf,
           peak_hours |-> JList(ph),
           peak_multiplier |-> pm,
           random_minutes_range |-> JDict([min |-> rmin, max |-> rmax])])

TwoTypes == [k \in {"Residential", "Office"} |->
                IF k = "Office" THEN JInt(4) ELSE JInt(2)]
OneType == [k \in {"Residential"} |-> JInt(2)]
OfficeAt(f) == [k \in {f} |-> JStr("Office")]
NoTypes == [k \in {} |-> JStr("Residential")]
MorningPeak == <<JDict([start |-> JInt(8), end |-> JInt(10)])>>

\* Floors -1..1, the ground floor an office, two rows, a peak window.
ValidFile ==
    Config(TwoTypes, OfficeAt(0), JInt(2), JInt(2), JInt(-1), JInt(5), JInt(300),
           JInt(10), MorningPeak, JFloat(2), JInt(1), JInt(1))
\* Floors 0..1, no per-floor penalty, random minutes in -1..0, two rows.
SlowFile ==
    Config(TwoTypes, OfficeAt(1), JInt(2), JInt(2), JInt(0), JInt(5), JInt(300),
           JInt(0), <<>>, JInt(1), JInt(-1), JInt(0))
\* Floors -1..1, one second per floor, one row.
QuickFile ==
    Config(TwoTypes, OfficeAt(-1), JInt(1), JInt(2), JInt(-1), JInt(5), JInt(300),
           JInt(1), <<>>, JFloat(4), JInt(0), JInt(0))
\* Floors 0..2, all of one capacity.
EqualCapacityFile ==
    Config(OneType, NoTypes, JInt(1), JInt(3), JInt(0), JInt(5), JInt(300),
           JInt(10), <<>>, JInt(1), JInt(1), JInt(1))
\* A building of the single floor 0.
SingleFloorFile ==
    Config(TwoTypes, OfficeAt(0), JInt(1), JInt(1), JInt(0), JInt(5), JInt(300),
           JInt(10), <<>>, JInt(1), JInt(1), JInt(1))
\* random_minutes_range with min above max.
EmptyRangeFile ==
    Config(TwoTypes, OfficeAt(0), JInt(1), JInt(2), JInt(0), JInt(5), JInt(300),
           JInt(10), <<>>, JInt(1), JInt(2), JInt(1))

Without(f, key) == JDict([k \in DOMAIN f.v \ {key} |-> f.v[k]])
With(f, key, value) == JDict([f.v EXCEPT ![key] = value])

AllKeys == RequiredKeys \cup {"negative_floor_number", "interval_per_floor_seconds"}

MissingKeyFiles == {Without(ValidFile, k) : k \in AllKeys}
WrongTypeFiles ==
    {With(ValidFile, k, JStr("3")) :
        k \in {"floor_capacities", "rows_generated", "negative_floor_number",
               "interval_per_floor_seconds", "peak_hours", "peak_multiplier"}}
    \cup {With(ValidFile, "floor_number", JFloat(2 * Quarter)),
          With(ValidFile, "floor_types", JDict(OfficeAt(0) @@ (1 :> JInt(7)))),
          With(ValidFile, "peak_hours", JList(<<JInt(8)>>)),
          With(ValidFile, "random_minutes_range", JDict([min |-> JInt(1)]))}
OutOfRangeFiles ==
    {With(ValidFile, "floor_capacities",
          JDict([TwoTypes EXCEPT !["Office"] = JInt(0)])),
     With(ValidFile, "rows_generated", JInt(0)),
     With(ValidFile, "floor_number", JInt(0)),
     With(ValidFile, "negative_floor_number", JInt(1)),
     With(ValidFile, "min_time_interval_seconds", JInt(0)),
     With(ValidFile, "max_time_interval_seconds", JInt(-1)),
     With(ValidFile, "interval_per_floor_seconds", JFloat(-1)),
     With(ValidFile, "peak_multiplier", JFloat(Quarter + 1)),
     With(ValidFile, "peak_hours", JList(<<JDict([start |-> JInt(8)])>>))}
UnreadableFiles == {[t |-> "nofile", v |-> 0], [t |-> "badjson", v |-> 0]}

Files ==
    {ValidFile, SlowFile, QuickFile, EqualCapacityFile, SingleFloorFile,
     EmptyRangeFile}
    \cup MissingKeyFiles \cup WrongTypeFiles \cup OutOfRangeFiles
    \cup UnreadableFiles

(***************************************************************************)
(* floor_weights_mapping.                                                  *)
(***************************************************************************)
\* range(self.negative_floor_number, self.floor_number)
FloorRange(s) == s.negative_floor_number .. (s.floor_number - 1)

\* self.floor_types.get(str(floor), "Residential")
FloorType(s, floor) ==
    IF floor \in DOMAIN s.floor_types THEN s.floor_types[floor] ELSE "Residential"

\* self.floor_capacities.get(...) gives None for a type with no capacity.
CapacityIsNone(s, floor) == FloorType(s, floor) \notin DOMAIN s.floor_capacities
Capacity(s, floor) == s.floor_capacities[FloorType(s, floor)]

MinCapacity(s) ==
    CHOOSE c \in {Capacity(s, f) : f \in FloorRange(s)} :
        \A f \in FloorRange(s) : c <= Capacity(s, f)
MaxCapacity(s) ==
    CHOOSE c \in {Capacity(s, f) : f \in FloorRange(s)} :
        \A f \in FloorRange(s) : c >= Capacity(s, f)

\* The exception floor_weights_mapping ends in, or "ok": min() and the
\* subtraction fail on None, and the division fails when all capacities agree.
WeightsOutcome(s) ==
    IF \E f \in FloorRange(s) : CapacityIsNone(s, f) THEN "TypeError"
    ELSE IF MaxCapacity(s) - MinCapacity(s) = 0 THEN "ZeroDivisionError"
    ELSE "ok"

\* base_weight + (capacity - min_capacity) / (max_capacity - min_capacity),
\* as a numerator over the common denominator
\* floor_number * (max_capacity - min_capacity).
RawWeight(s, floor) ==
    (MaxCapacity(s) - MinCapacity(s))
    + s.floor_number * (Capacity(s, floor) - MinCapacity(s))

RECURSIVE SumRaw(_, _)
SumRaw(s, floors) ==
    IF floors = {} THEN 0
    ELSE LET f == CHOOSE x \in floors : TRUE
         IN  RawWeight(s, f) + SumRaw(s, floors \ {f})

\* round(n / d, 3) in thousandths, for n >= 0 and d > 0: to nearest, ties to even.
Round3(n, d) ==
    LET q == (1000 * n) \div d
        r == (1000 * n) % d
    IN  IF 2 * r > d THEN q + 1
        ELSE IF 2 * r = d THEN q + (q % 2)
        ELSE q

\* self.weight_list, in thousandths, in the order of the floor range.
WeightList(s) ==
    [k \in 1 .. (s.floor_number - s.negative_floor_number) |->
        Round3(RawWeight(s, s.negative_floor_number + k - 1),
               SumRaw(s, FloorRange(s)))]

(***************************************************************************)
(* random.choices(range(negative_floor_number, floor_number), weights=w).  *)
(***************************************************************************)
RECURSIVE SumSeq(_)
SumSeq(w) == IF w = <<>> THEN 0 ELSE Head(w) + SumSeq(Tail(w))

\* random.choices raises ValueError when the weights do not match the
\* population or do not add up to more than zero.
ChoicesFails(s, w) ==
    \/ Len(w) # s.floor_number - s.negative_floor_number
    \/ SumSeq(w) <= 0

\* The floors a draw can give: those of positive weight.
Choices(s, w) ==
    {s.negative_floor_number + k - 1 : k \in {n \in 1 .. Len(w) : w[n] > 0}}

(***************************************************************************)
(* calculate_interval_minutes.                                             *)
(***************************************************************************)
Abs(n) == IF n < 0 THEN -n ELSE n
Min2(a, b) == IF a <= b THEN a ELSE b

\* One lag term, in ticks (lines 226-232 and 236-243).
Lag(s, distance) ==
    IF distance <= 1 THEN s.min_time_interval_seconds * TicksPerSecond
    ELSE Min2(s.max_time_interval_seconds * TicksPerSecond,
              distance * s.interval_per_floor_quarters)

\* datetime.hour of a time in ticks.
Hour(t) == (t \div TicksPerHour) % 24

\* Lines 246-252, the multiplier in quarters.
PeakIntervalMultiplier(s, t) ==
    IF \E k \in DOMAIN s.peak_hours :
           s.peak_hours[k].start <= Hour(t) /\ Hour(t) < s.peak_hours[k].end
    THEN s.peak_multiplier_quarters
    ELSE Quarter

\* random.randint(min, max) raises ValueError on an empty range.
RandintFails(s) == s.random_minutes_range.min > s.random_minutes_range.max
RandomMinutes(s) == s.random_minutes_range.min .. s.random_minutes_range.max

\* Lines 256-260 with the minutes turned into ticks by timedelta(minutes=...).
IntervalTicks(s, random_minutes, multiplier, current_lag, next_lag) ==
    random_minutes * multiplier * (TicksPerMinute \div Quarter)
    + current_lag + next_lag

(***************************************************************************)
(* The store (scr/crud_elevator.py, ElevatorStateManager).                 *)
(***************************************************************************)
\* strftime("%Y-%m-%d %H:%M:%S"): whole seconds, the rest dropped.
DateStr(t) == t \div TicksPerSecond
\* The datetime the store gives back for a stored date string.
ParsedDate(d) == d * TicksPerSecond

\* create_elevator_state(current_floor, demand_floor, next_floor, date_str)
CreatedState(cf, df, nf, date_str) ==
    [current_floor |-> cf, demand_floor |-> df, next_floor |-> nf,
     call_datetime |-> date_str]

\* get_last_elevator_state(): the most recently created row.
LastElevatorState(rows) == rows[Len(rows)]

(***************************************************************************)
(* The process.                                                            *)
(***************************************************************************)
\* datetime.today() of a first-ever run: a quarter of a second before the
\* peak window opens.
NowChoices == {At(7, 59, 59, 3)}

\* Values of names that have not been assigned yet.
NoAttributes == [loaded |-> FALSE]
NoCursor == [current_floor |-> 0, demand_floor |-> 0, start_time |-> 0]
NoLags == [current |-> 0, next |-> 0, interval |-> 0]

Ended == {"idle", "done", "error"}

Init ==
    /\ store = <<>>
    /\ file = ValidFile
    /\ pc = "idle"
    /\ outcome = "none"
    /\ self = NoAttributes
    /\ weight_list = <<>>
    /\ cursor = NoCursor
    /\ next_floor = 0
    /\ drawn = 0
    /\ lags = NoLags
    /\ call_datetime = 0
    /\ i = 0
    /\ runs = 0
    /\ runStart = 0
    /\ drew = FALSE
    /\ getCalls = 0
    /\ createCalls = 0
    /\ storeFailed = FALSE

\* An exception leaves the run; nothing catches it.
Raise(exception) ==
    /\ pc' = "error"
    /\ outcome' = exception

\* The script is started: a new process, a new object.
StartRun(f) ==
    /\ pc \in Ended
    /\ runs < MaxRuns
    /\ file' = f
    /\ pc' = "init"
    /\ outcome' = "none"
    /\ self' = NoAttributes
    /\ weight_list' = <<>>
    /\ cursor' = NoCursor
    /\ next_floor' = 0
    /\ drawn' = 0
    /\ lags' = NoLags
    /\ call_datetime' = 0
    /\ i' = 0
    /\ runs' = runs + 1
    /\ runStart' = Len(store)
    /\ drew' = FALSE
    /\ getCalls' = 0
    /\ createCalls' = 0
    /\ storeFailed' = FALSE
    /\ UNCHANGED store

\* load_elevator_variables, continuing at position `then` when it returns.
Load(then) ==
    /\ IF LoadOutcome(file) = "ok"
       THEN /\ self' = LoadedAttributes(file)
            /\ pc' = then
            /\ UNCHANGED outcome
       ELSE /\ Raise(LoadOutcome(file))
            /\ UNCHANGED self
    /\ UNCHANGED <<store, file, weight_list, cursor, next_floor, drawn, lags,
                   call_datetime, i, runs, runStart, drew, getCalls, createCalls,
                   storeFailed>>

\* __init__: the constructor loads the variables.
Construct ==
    /\ pc = "init"
    /\ Load("generate")

\* generate_elevator_states, line 266: the variables are loaded again.
LoadElevatorVariables ==
    /\ pc = "generate"
    /\ Load("weights")

\* generate_elevator_states, line 267.
FloorWeightsMapping ==
    /\ pc = "weights"
    /\ IF WeightsOutcome(self) = "ok"
       THEN /\ weight_list' = WeightList(self)
            /\ pc' = "seed"
            /\ UNCHANGED outcome
       ELSE /\ Raise(WeightsOutcome(self))
            /\ UNCHANGED weight_list
    /\ UNCHANGED <<store, file, self, cursor, next_floor, drawn, lags,
                   call_datetime, i, runs, runStart, drew, getCalls, createCalls,
                   storeFailed>>

\* Lines 214-216: the cursor taken from the last stored state.
SeededCursor(last_state) ==
    [current_floor |-> last_state.next_floor,
     demand_floor |-> last_state.demand_floor,
     start_time |-> ParsedDate(last_state.call_datetime)]

\* A cold start that takes the upper end of the floor range as a floor.
ColdStartFloorsInclusive == self.negative_floor_number .. self.floor_number

\* Lines 218-219: the floors a first-ever run may start from.
ColdStartFloors == Choices(self, weight_list)

\* generate_elevator_states, line 268: obtain_table_last_state, the store
\* answering.  The loop is entered with i = 1 (rows_generated is positive).
ObtainTableLastState ==
    /\ pc = "seed"
    /\ getCalls' = getCalls + 1
    /\ IF store # <<>>
       THEN /\ cursor' = SeededCursor(LastElevatorState(store))
            /\ pc' = "pick"
            /\ i' = 1
            /\ UNCHANGED <<outcome, drew>>
       ELSE /\ drew' = TRUE
            /\ IF ChoicesFails(self, weight_list)
               THEN /\ Raise("ValueError")
                    /\ UNCHANGED <<cursor, i>>
               ELSE /\ \E cf \in ColdStartFloors, df \in ColdStartFloors,
                          now \in NowChoices :
                          cursor' = [current_floor |-> cf, demand_floor |-> df,
                                     start_time |-> now]
                    /\ pc' = "pick"
                    /\ i' = 1
                    /\ UNCHANGED outcome
    /\ UNCHANGED <<store, file, self, weight_list, next_floor, drawn, lags,
                   call_datetime, runs, runStart, createCalls, storeFailed>>

\* obtain_table_last_state, the store's read raising.
GetLastElevatorStateFails ==
    /\ pc = "seed"
    /\ getCalls' = getCalls + 1
    /\ storeFailed' = TRUE
    /\ Raise("StoreError")
    /\ UNCHANGED <<store, file, self, weight_list, cursor, next_floor, drawn,
                   lags, call_datetime, i, runs, runStart, drew, createCalls>>

\* pick_next_door, lines 200-202: one weighted draw.
PickNextDoorDraw ==
    /\ pc = "pick"
    /\ drew' = TRUE
    /\ IF ChoicesFails(self, weight_list)
       THEN /\ Raise("ValueError")
            /\ UNCHANGED drawn
       ELSE /\ \E floor \in Choices(self, weight_list) : drawn' = floor
            /\ pc' = "check"
            /\ UNCHANGED outcome
    /\ UNCHANGED <<store, file, self, weight_list, cursor, next_floor, lags,
                   call_datetime, i, runs, runStart, getCalls, createCalls,
                   storeFailed>>

\* A check against the floor the elevator is at instead of the demand floor.
NextDoorAcceptedAgainstCurrent == drawn # cursor.current_floor

\* Line 204: the draw is kept when it is not the demand floor.
NextDoorAccepted == drawn # cursor.demand_floor

\* pick_next_door, lines 204-206, and the assignment of line 271.
PickNextDoorCheck ==
    /\ pc = "check"
    /\ IF NextDoorAccepted
       THEN /\ next_floor' = drawn
            /\ pc' = "interval"
       ELSE /\ pc' = "pick"
            /\ UNCHANGED next_floor
    /\ UNCHANGED <<store, file, outcome, self, weight_list, cursor, drawn, lags,
                   call_datetime, i, runs, runStart, drew, getCalls, createCalls,
                   storeFailed>>

\* Lines 272-274: calculate_interval_minutes and the new call time.
CalculateIntervalMinutes ==
    /\ pc = "interval"
    /\ IF RandintFails(self)
       THEN /\ Raise("ValueError")
            /\ UNCHANGED <<lags, call_datetime>>
       ELSE /\ \E random_minutes \in RandomMinutes(self) :
                  LET current_lag ==
                          Lag(self, Abs(cursor.current_floor - cursor.demand_floor))
                      next_lag ==
                          Lag(self, Abs(next_floor - cursor.demand_floor))
                      interval ==
                          IntervalTicks(self, random_minutes,
                              PeakIntervalMultiplier(self, cursor.start_time),
                              current_lag, next_lag)
                  IN  /\ lags' = [current |-> current_lag, next |-> next_lag,
                                  interval |-> interval]
                      /\ call_datetime' = cursor.start_time + interval
            /\ pc' = "create"
            /\ UNCHANGED outcome
    /\ UNCHANGED <<store, file, self, weight_list, cursor, next_floor, drawn, i,
                   runs, runStart, drew, getCalls, createCalls, storeFailed>>

\* Lines 276-281: the state handed to create_elevator_state.
HandedState ==
    CreatedState(cursor.current_floor, cursor.demand_floor, next_floor,
                 DateStr(call_datetime))

\* Lines 276-281, the store persisting the row.
CreateElevatorState ==
    /\ pc = "create"
    /\ createCalls' = createCalls + 1
    /\ store' = Append(store, HandedState)
    /\ pc' = "advance"
    /\ UNCHANGED <<file, outcome, self, weight_list, cursor, next_floor, drawn,
                   lags, call_datetime, i, runs, runStart, drew, getCalls,
                   storeFailed>>

\* A loop that swallows the store's exception and goes on with the next row.
CreateElevatorStateSkips ==
    /\ pc = "create"
    /\ createCalls' = createCalls + 1
    /\ storeFailed' = TRUE
    /\ pc' = "advance"
    /\ UNCHANGED <<store, file, outcome, self, weight_list, cursor, next_floor,
                   drawn, lags, call_datetime, i, runs, runStart, drew, getCalls>>

\* Lines 276-281, the store's write raising: the loop has no handler.
CreateElevatorStateFails ==
    /\ pc = "create"
    /\ createCalls' = createCalls + 1
    /\ storeFailed' = TRUE
    /\ Raise("StoreError")
    /\ UNCHANGED <<store, file, self, weight_list, cursor, next_floor, drawn,
                   lags, call_datetime, i, runs, runStart, drew, getCalls>>

\* A cursor that advances to the demand floor instead of the next floor.
AdvancedToDemandFloor == cursor.demand_floor

\* Line 285: the floor the next row starts from.
AdvancedCurrentFloor == next_floor

\* Lines 285-287 and the loop's next round (line 270).
AdvanceCursor ==
    /\ pc = "advance"
    /\ drew' = TRUE
    /\ IF ChoicesFails(self, weight_list)
       THEN /\ Raise("ValueError")
            /\ UNCHANGED <<cursor, i>>
       ELSE /\ \E floor \in Choices(self, weight_list) :
                  cursor' = [current_floor |-> AdvancedCurrentFloor,
                             demand_floor |-> floor,
                             start_time |-> call_datetime]
            /\ i' = i + 1
            /\ IF i + 1 > self.rows_generated
               THEN pc' = "done" /\ outcome' = "returned"
               ELSE pc' = "pick" /\ UNCHANGED outcome
    /\ UNCHANGED <<store, file, self, weight_list, next_floor, drawn, lags,
                   call_datetime, runs, runStart, getCalls, createCalls,
                   storeFailed>>

Next ==
    \/ \E f \in Files : StartRun(f)
    \/ Construct
    \/ LoadElevatorVariables
    \/ FloorWeightsMapping
    \/ ObtainTableLastState
    \/ GetLastElevatorStateFails
    \/ PickNextDoorDraw
    \/ PickNextDoorCheck
    \/ CalculateIntervalMinutes
    \/ CreateElevatorState
    \/ CreateElevatorStateFails
    \/ AdvanceCursor

Spec == Init /\ [][Next]_vars

(***************************************************************************)
(* pick_next_door on its own: an object whose floor range, weight list and *)
(* demand floor a caller has set, and the method running.  The process     *)
(* keeps taking steps while it can (weak fairness of its next step).       *)
(***************************************************************************)
HarnessWeights == 0 .. 2

InitPick ==
    /\ store = <<>>
    /\ file = ValidFile
    /\ pc = "pick"
    /\ outcome = "none"
    /\ \E neg \in -1 .. 0, fn \in 1 .. 2 :
          /\ self = [LoadedAttributes(ValidFile) EXCEPT
                        !.negative_floor_number = neg, !.floor_number = fn]
          /\ weight_list \in [1 .. (fn - neg) -> HarnessWeights]
          /\ \E df \in neg .. (fn - 1) :
                cursor = [current_floor |-> 0, demand_floor |-> df, start_time |-> 0]
    /\ next_floor = 0
    /\ drawn = 0
    /\ lags = NoLags
    /\ call_datetime = 0
    /\ i = 1
    /\ runs = 1
    /\ runStart = 0
    /\ drew = FALSE
    /\ getCalls = 0
    /\ createCalls = 0
    /\ storeFailed = FALSE

NextPick ==
    \/ PickNextDoorDraw
    \/ PickNextDoorCheck

SpecPick == InitPick /\ [][NextPick]_vars /\ WF_vars(NextPick)

(***************************************************************************)
(* Properties.                                                             *)
(***************************************************************************)
\* The rows the current run has created.
RunRows == (runStart + 1) .. Len(store)
\* pick_next_door has returned in this round of the loop.
Picked == pc \in {"interval", "create", "advance"}
\* obtain_table_last_state has returned in this run.
Seeded ==
    \/ pc \in {"pick", "check", "interval", "create", "advance", "done"}
    \/ pc = "error" /\ createCalls > 0

\* C1: every stored state after the first starts at the floor the state
\* stored just before it went to, inside a run and across runs.
C1_FloorChain ==
    \A k \in 1 .. (Len(store) - 1) :
        store[k + 1].current_floor = store[k].next_floor

\* A later run has stored two rows behind the rows of an earlier run.
C1_Witness ==
    /\ runStart >= 1
    /\ Len(store) >= runStart + 2

\* C2: within a run, each call time handed to create_elevator_state is
\* strictly later than the one handed to it in the round before.
C2_CallTimeStrictlyIncreasing ==
    /\ \A k \in RunRows \ {Len(store)} :
           store[k + 1].call_datetime > store[k].call_datetime
    /\ (pc = "create" /\ RunRows # {}) =>
           HandedState.call_datetime > store[Len(store)].call_datetime

\* C3: the floor pick_next_door returns is never the demand floor, so no
\* stored state has its next floor equal to its demand floor.
C3_NextFloorNeverDemandFloor ==
    /\ Picked => next_floor # cursor.demand_floor
    /\ \A k \in 1 .. Len(store) : store[k].next_floor # store[k].demand_floor

\* pick_next_door has returned in a building of several floors, in a run
\* that has already stored a row.
C3_Witness ==
    /\ pc = "interval"
    /\ Cardinality(FloorRange(self)) >= 2
    /\ RunRows # {}

\* The configuration document is what the data model asks for: every
\* parameter present, of its type and in its range.
WellFormed(f) ==
    /\ f.t = "dict"
    /\ AllKeys \subseteq DOMAIN f.v
    /\ IsDict(f.v["floor_capacities"])
    /\ \A k \in DOMAIN f.v["floor_capacities"].v :
           /\ f.v["floor_capacities"].v[k].t = "int"
           /\ f.v["floor_capacities"].v[k].v > 0
    /\ IsDict(f.v["floor_types"])
    /\ \A k \in DOMAIN f.v["floor_types"].v : IsStr(f.v["floor_types"].v[k])
    /\ \A k \in {"rows_generated", "floor_number", "min_time_interval_seconds",
                 "max_time_interval_seconds"} :
           f.v[k].t = "int" /\ f.v[k].v > 0
    /\ f.v["negative_floor_number"].t = "int"
    /\ f.v["negative_floor_number"].v <= 0
    /\ f.v["interval_per_floor_seconds"].t \in {"int", "float"}
    /\ Quarters(f.v["interval_per_floor_seconds"]) >= 0
    /\ IsList(f.v["peak_hours"])
    /\ \A k \in DOMAIN f.v["peak_hours"].v :
           /\ IsDict(f.v["peak_hours"].v[k])
           /\ ~BadPeakInterval(f.v["peak_hours"].v[k])
    /\ f.v["peak_multiplier"].t \in {"int", "float"}
    /\ Quarters(f.v["peak_multiplier"]) >= 0
    /\ Quarters(f.v["peak_multiplier"]) <= Quarter
    /\ IsDict(f.v["random_minutes_range"])
    /\ {"min", "max"} \subseteq DOMAIN f.v["random_minutes_range"].v
    /\ f.v["random_minutes_range"].v["min"].t = "int"
    /\ f.v["random_minutes_range"].v["max"].t = "int"

\* C4: a run on a document that misses a parameter, or holds one of the
\* wrong type or out of its range, ends in load_elevator_variables'
\* ValueError, with no floor drawn and no store call made.
C4_ConfigurationErrorsFailFast ==
    (pc \notin {"idle", "init"} /\ ~WellFormed(file)) =>
        /\ pc = "error"
        /\ outcome = "ValueError"
        /\ ~drew
        /\ getCalls = 0
        /\ createCalls = 0

\* C5: when a store call raises, the run ends there with that failure: the
\* failing call stores nothing, and from then on the run makes no further
\* store call and the stored states stay as they were.
C5_StoreFailureIsFatal ==
    [][storeFailed' =>
          /\ pc' = "error"
          /\ outcome' = "StoreError"
          /\ store' = store
          /\ storeFailed => (createCalls' = createCalls /\ getCalls' = getCalls)
      ]_vars

\* The second create_elevator_state of a run raised, after its first row
\* was stored.
C5_Witness ==
    /\ storeFailed
    /\ createCalls = 2
    /\ Len(store) = runStart + 1

\* Every floor of the range resolves to the same capacity.
EqualCapacities(s) ==
    /\ \A f \in FloorRange(s) : ~CapacityIsNone(s, f)
    /\ \A f, g \in FloorRange(s) : Capacity(s, f) = Capacity(s, g)

\* C6: with all capacities equal, floor_weights_mapping returns, and the
\* weight list holds one equal weight per floor.
C6_EqualCapacitiesGiveUniformWeights ==
    (self.loaded /\ pc \notin {"generate", "weights"} /\ EqualCapacities(self)) =>
        /\ outcome # "ZeroDivisionError"
        /\ Len(weight_list) = Cardinality(FloorRange(self))
        /\ \A k, n \in DOMAIN weight_list : weight_list[k] = weight_list[n]

C8_LagMonotonicInDistance ==
    pc \in {"create", "advance"} =>
        LET current_distance == Abs(cursor.current_floor - cursor.demand_floor)
            next_distance == Abs(next_floor - cursor.demand_floor)
        IN  /\ current_distance <= next_distance => lags.current <= lags.next
            /\ next_distance <= current_distance => lags.next <= lags.current

\* C9: in a run started on an empty store, the seeded cursor's floors and
\* the three floors of every stored state lie in the floor range.
C9_FloorsInsideFloorRange ==
    (runStart = 0 /\ self.loaded) =>
        /\ Seeded => /\ cursor.current_floor \in FloorRange(self)
                     /\ cursor.demand_floor \in FloorRange(self)
        /\ Picked => next_floor \in FloorRange(self)
        /\ \A k \in 1 .. Len(store) :
               /\ store[k].current_floor \in FloorRange(self)
               /\ store[k].demand_floor \in FloorRange(self)
               /\ store[k].next_floor \in FloorRange(self)

\* A first run has returned after storing two rows, one of them on a floor
\* below ground.
C9_Witness ==
    /\ runStart = 0
    /\ pc = "done"
    /\ Len(store) = 2
    /\ store[1].current_floor < 0

\* C10: a run on accepted parameters with two floors or more, in which no
\* store call raised, ends by returning, having called
\* create_elevator_state once per row asked for.
C10_ExactlyRowsGenerated ==
    (/\ pc \in {"done", "error"}
     /\ self.loaded
     /\ Cardinality(FloorRange(self)) >= 2
     /\ ~storeFailed) =>
        /\ pc = "done"
        /\ createCalls = self.rows_generated
        /\ Len(store) = runStart + self.rows_generated

====
